---- MODULE Spec2Model ----
(***************************************************************************)
(* Book price monitor: scrape_books, save_to_csv, plot_cheapest_books,     *)
(* plot_price_trends and run_tracker of book_price_monitor.py (the second  *)
(* script, bookshop_price_monitor.py, is the same code without docstrings).*)
(*                                                                         *)
(* Modelling conventions                                                   *)
(*  - a capture date is a day ordinal standing for its ISO string; the     *)
(*    order of ordinals is the lexicographic order of the ISO strings;     *)
(*  - a price is an integer amount; a mean is kept as the pair (sum, n);   *)
(*  - a cell of the price column is [k, v]: k = "num" for the text of a    *)
(*    number v, "empty" for the empty string, "text" for any other text;   *)
(*  - the CSV file is the sequence of its lines.                           *)
(***************************************************************************)
EXTENDS Integers, Sequences, FiniteSets, TLC

\* ------------------------------------------------------------------ bounds
MaxPages == 2
MaxItems == 3
MaxRuns == 2
MaxStoreRows == 3
MaxInitRows == 3

\* slice [:10] of plot_cheapest_books
TopN == 10

VARIABLES
    store,        \* the file books.csv: [exists, lines]
    storeBefore,  \* history: the file when the current run started
    pc,           \* position of run_tracker
    page,         \* scrape_books: page
    books,        \* scrape_books: books (then run_tracker: new_data)
    today,        \* scrape_books: today
    runs,         \* number of runs started
    fetches,      \* history: the responses to this run's requests, in order
    stop,         \* history: why this run's scrape loop ended
    cheapest,     \* plot_cheapest_books: books_sorted, or the exception
    trends        \* plot_price_trends: (dates, avg_prices), or the exception

vars == <<store, storeBefore, pc, page, books, today, runs, fetches, stop,
          cheapest, trends>>

\* ------------------------------------------------------------ the catalog
Missing == "MISSING"
NoNumber == 0 - 1

Fields == {"title", "price", "stock", "rating"}

\* The markup of item i of catalog page p: a .product_pod element.
TitleOf(p, i) == 100 * p + i
PriceOf(p, i) == 10 * p + i

Item(p, i) ==
    [title |-> TitleOf(p, i), price_text |-> PriceOf(p, i),
     stock |-> "In stock", rating |-> "Three"]

\* The same element with one expected field absent from the markup.
Without(item, f) ==
    CASE f = "title"  -> [item EXCEPT !.title = 0]
      [] f = "price"  -> [item EXCEPT !.price_text = NoNumber]
      [] f = "stock"  -> [item EXCEPT !.stock = Missing]
      [] f = "rating" -> [item EXCEPT !.rating = Missing]
      [] OTHER        -> item

\* What requests.get can answer for one page: a 404, a transport failure
\* (timeout, connection error, other non-2xx), or a page of n items of which
\* item `bad` (0: none) lacks field `field`.
Responses ==
    {[kind |-> "404", n |-> 0, bad |-> 0, field |-> "none"],
     [kind |-> "error", n |-> 0, bad |-> 0, field |-> "none"]}
    \cup {[kind |-> "ok", n |-> n, bad |-> 0, field |-> "none"] : n \in 0..MaxItems}
    \cup {r \in {[kind |-> "ok", n |-> n, bad |-> b, field |-> f] :
                    n \in 1..MaxItems, b \in 1..MaxItems, f \in Fields} :
            r.bad <= r.n}

\* soup.select(".product_pod") on the page a response carries
PageItems(p, resp) ==
    [i \in 1..resp.n |->
        IF i = resp.bad THEN Without(Item(p, i), resp.field) ELSE Item(p, i)]

\* ---------------------------------------------------------- scrape_books
\* One item's fields are all present: none of the four lookups raises.
Extractable(item) ==
    /\ item.title # 0
    /\ item.price_text # NoNumber
    /\ item.stock # Missing
    /\ item.rating # Missing

\* The dict appended for one item
BookOf(item, date) ==
    [title |-> item.title, price |-> item.price_text, stock |-> item.stock,
     rating |-> item.rating, date |-> date]

\* Variant of ExtractItems: an item lacking a field is skipped and the loop goes on.
RECURSIVE ExtractItemsSkipBad(_, _, _)
ExtractItemsSkipBad(items, date, acc) ==
    IF items = <<>> THEN [raised |-> FALSE, books |-> acc]
    ELSE IF ~Extractable(Head(items)) THEN ExtractItemsSkipBad(Tail(items), date, acc)
    ELSE ExtractItemsSkipBad(Tail(items), date, Append(acc, BookOf(Head(items), date)))

\* The for loop over items: appends a dict per item until a lookup raises.
RECURSIVE ExtractItems(_, _, _)
ExtractItems(items, date, acc) ==
    IF items = <<>> THEN [raised |-> FALSE, books |-> acc]
    ELSE IF ~Extractable(Head(items)) THEN [raised |-> TRUE, books |-> acc]
    ELSE ExtractItems(Tail(items), date, Append(acc, BookOf(Head(items), date)))

\* Variant of ScrapeStep: a transport failure throws the batch away.
ScrapeStepDiscardOnError(bks, pg, resp, date) ==
    IF resp.kind = "404" THEN
        [books |-> bks, page |-> pg, pc |-> "scraped", stop |-> "404"]
    ELSE IF resp.kind = "error" THEN
        [books |-> <<>>, page |-> pg, pc |-> "scraped", stop |-> "error"]
    ELSE IF resp.n = 0 THEN
        [books |-> bks, page |-> pg, pc |-> "scraped", stop |-> "empty"]
    ELSE LET x == ExtractItems(PageItems(pg, resp), date, bks) IN
        IF x.raised
        THEN [books |-> x.books, page |-> pg, pc |-> "scrape_raised", stop |-> "malformed"]
        ELSE [books |-> x.books, page |-> pg + 1, pc |-> "scraping", stop |-> "none"]

\* Variant of ScrapeStep: a transport failure is retried.
ScrapeStepRetryOnError(bks, pg, resp, date) ==
    IF resp.kind = "404" THEN
        [books |-> bks, page |-> pg, pc |-> "scraped", stop |-> "404"]
    ELSE IF resp.kind = "error" THEN
        [books |-> bks, page |-> pg, pc |-> "scraping", stop |-> "none"]
    ELSE IF resp.n = 0 THEN
        [books |-> bks, page |-> pg, pc |-> "scraped", stop |-> "empty"]
    ELSE LET x == ExtractItems(PageItems(pg, resp), date, bks) IN
        IF x.raised
        THEN [books |-> x.books, page |-> pg, pc |-> "scrape_raised", stop |-> "malformed"]
        ELSE [books |-> x.books, page |-> pg + 1, pc |-> "scraping", stop |-> "none"]

\* One iteration of `while True`: the loop's state after the response resp
\* to the request for page pg. A 404 and a RequestException both break; an
\* empty page breaks; an exception of the item loop leaves scrape_books.
ScrapeStep(bks, pg, resp, date) ==
    IF resp.kind = "404" THEN
        [books |-> bks, page |-> pg, pc |-> "scraped", stop |-> "404"]
    ELSE IF resp.kind = "error" THEN
        [books |-> bks, page |-> pg, pc |-> "scraped", stop |-> "error"]
    ELSE IF resp.n = 0 THEN
        [books |-> bks, page |-> pg, pc |-> "scraped", stop |-> "empty"]
    ELSE LET x == ExtractItems(PageItems(pg, resp), date, bks) IN
        IF x.raised
        THEN [books |-> x.books, page |-> pg, pc |-> "scrape_raised", stop |-> "malformed"]
        ELSE [books |-> x.books, page |-> pg + 1, pc |-> "scraping", stop |-> "none"]

\* ------------------------------------------------------------ save_to_csv
Num(v) == [k |-> "num", v |-> v]
EmptyCell == [k |-> "empty", v |-> 0]
TextCell == [k |-> "text", v |-> 0]

\* writer.writeheader(): the line title,price,stock,rating,date
Header ==
    [kind |-> "header", title |-> 0, price |-> TextCell, stock |-> "stock",
     rating |-> "rating", date |-> 0]

\* The line DictWriter writes for one dict: the float price as its text.
RowOf(book) ==
    [kind |-> "row", title |-> book.title, price |-> Num(book.price),
     stock |-> book.stock, rating |-> book.rating, date |-> book.date]

RECURSIVE RowsOf(_)
RowsOf(data) ==
    IF data = <<>> THEN <<>> ELSE <<RowOf(Head(data))>> \o RowsOf(Tail(data))

Absent == [exists |-> FALSE, lines |-> <<>>]

\* The lines save_to_csv hands to the file object, in order.
LinesToWrite(file, data) ==
    (IF file.exists THEN <<>> ELSE <<Header>>) \o RowsOf(data)

\* Variant of SaveToCsv: the header is written on every call.
SaveToCsvAlwaysHeader(file, data) ==
    [exists |-> TRUE,
     lines |-> (IF file.exists THEN file.lines ELSE <<>>) \o <<Header>> \o RowsOf(data)]

\* Variant of SaveToCsv: the file is always opened in mode "w".
SaveToCsvTruncate(file, data) ==
    [exists |-> TRUE, lines |-> <<Header>> \o RowsOf(data)]

\* Variant of SaveToCsv: a title the file already holds is not written again.
SaveToCsvDedup(file, data) ==
    [exists |-> TRUE,
     lines |-> (IF file.exists THEN file.lines ELSE <<Header>>)
               \o SelectSeq(RowsOf(data),
                     LAMBDA r : \A i \in 1..Len(file.lines) : file.lines[i].title # r.title)]

\* The file after save_to_csv(data) returned: mode "a" when it exists, "w"
\* (create) with a header when it does not.
SaveToCsv(file, data) ==
    [exists |-> TRUE,
     lines |-> (IF file.exists THEN file.lines ELSE <<>>) \o LinesToWrite(file, data)]

\* The file after open() succeeded and a write then failed with only the
\* first k lines of the batch on disk.
SaveInterrupted(file, data, k) ==
    [exists |-> TRUE,
     lines |-> (IF file.exists THEN file.lines ELSE <<>>)
               \o SubSeq(LinesToWrite(file, data), 1, k)]

\* ------------------------------------------------------------- csv reading
\* csv.DictReader: the first line names the columns, the others are rows;
\* a row's cells are found by name only when the first line is the header.
HasColumns(file) == file.lines # <<>> /\ Head(file.lines).kind = "header"
ReaderRows(file) == IF file.lines = <<>> THEN <<>> ELSE Tail(file.lines)

\* float(text) succeeds. A cell the row lacks reads as None, which fails
\* float() and is falsy like the empty string: it is the "empty" cell here.
Parses(cell) == cell.k = "num"

\* ---------------------------------------------------- plot_cheapest_books
\* sorted(): insertion after every element whose key is not greater (stable)
RECURSIVE InsertByPrice(_, _)
InsertByPrice(sorted, x) ==
    IF sorted = <<>> THEN <<x>>
    ELSE IF Head(sorted).price <= x.price
         THEN <<Head(sorted)>> \o InsertByPrice(Tail(sorted), x)
         ELSE <<x>> \o sorted

RECURSIVE SortedByPrice(_)
SortedByPrice(s) ==
    IF s = <<>> THEN <<>>
    ELSE InsertByPrice(SortedByPrice(SubSeq(s, 1, Len(s) - 1)), s[Len(s)])

\* s[:n]
Take(s, n) == SubSeq(s, 1, IF Len(s) < n THEN Len(s) ELSE n)

\* The reading loop: one {"title", "price"} per row (pos: which row it is,
\* the identity of the dict), until float() raises.
RECURSIVE ReadCheapest(_, _, _)
ReadCheapest(rows, i, acc) ==
    IF i > Len(rows) THEN [st |-> "ok", out |-> acc]
    ELSE IF ~Parses(rows[i].price) THEN [st |-> "ValueError", out |-> <<>>]
    ELSE ReadCheapest(rows, i + 1,
            Append(acc, [title |-> rows[i].title, price |-> rows[i].price.v, pos |-> i]))

NoResult == [st |-> "none", out |-> <<>>]

PlotCheapestBooks(file) ==
    IF ~file.exists THEN [st |-> "FileNotFoundError", out |-> <<>>]
    ELSE IF ReaderRows(file) # <<>> /\ ~HasColumns(file) THEN [st |-> "KeyError", out |-> <<>>]
    ELSE LET r == ReadCheapest(ReaderRows(file), 1, <<>>) IN
        IF r.st # "ok" THEN r
        ELSE [st |-> "ok", out |-> Take(SortedByPrice(r.out), TopN)]

\* ------------------------------------------------------ plot_price_trends
\* `if row["price"]`: the cell is a non-empty string
Truthy(cell) == cell.k # "empty"

\* The reading loop: price_by_date as the sequence of (date, price) kept.
RECURSIVE ReadTrends(_, _, _)
ReadTrends(rows, i, acc) ==
    IF i > Len(rows) THEN [st |-> "ok", out |-> acc]
    ELSE IF ~Truthy(rows[i].price) THEN ReadTrends(rows, i + 1, acc)
    ELSE IF ~Parses(rows[i].price) THEN [st |-> "ValueError", out |-> <<>>]
    ELSE ReadTrends(rows, i + 1,
            Append(acc, [date |-> rows[i].date, price |-> rows[i].price.v]))

Min(S) == CHOOSE x \in S : \A y \in S : x <= y

\* sorted(price_by_date.keys())
RECURSIVE SortedDates(_)
SortedDates(S) ==
    IF S = {} THEN <<>> ELSE <<Min(S)>> \o SortedDates(S \ {Min(S)})

RECURSIVE SumPrices(_, _)
SumPrices(kept, d) ==
    IF kept = <<>> THEN 0
    ELSE (IF Head(kept).date = d THEN Head(kept).price ELSE 0) + SumPrices(Tail(kept), d)

RECURSIVE CountPrices(_, _)
CountPrices(kept, d) ==
    IF kept = <<>> THEN 0
    ELSE (IF Head(kept).date = d THEN 1 ELSE 0) + CountPrices(Tail(kept), d)

\* sum(prices) / len(prices) per date, as the pair (sum, n)
Averages(kept) ==
    LET dates == SortedDates({kept[i].date : i \in 1..Len(kept)}) IN
    [j \in 1..Len(dates) |->
        [date |-> dates[j], sum |-> SumPrices(kept, dates[j]),
         n |-> CountPrices(kept, dates[j])]]

PlotPriceTrends(file) ==
    IF ~file.exists THEN [st |-> "FileNotFoundError", out |-> <<>>]
    ELSE IF ReaderRows(file) # <<>> /\ ~HasColumns(file) THEN [st |-> "KeyError", out |-> <<>>]
    ELSE LET r == ReadTrends(ReaderRows(file), 1, <<>>) IN
        IF r.st # "ok" THEN r ELSE [st |-> "ok", out |-> Averages(r.out)]

\* ------------------------------------------------------------ run_tracker
\* The number of data lines of the file (for the bound of StartRun)
StoredCount(file) == Len(SelectSeq(file.lines, LAMBDA l : l.kind = "row"))

\* Starting the script: run_tracker up to the first request of scrape_books.
\* The clock never runs backwards between two runs. A run is started at most
\* MaxRuns times, and only on a store of at most MaxStoreRows rows.
StartRun ==
    /\ pc \in {"idle", "done", "scrape_raised", "save_raised", "plot_raised"}
    /\ runs < MaxRuns
    /\ StoredCount(store) <= MaxStoreRows
    /\ \E d \in {today, today + 1} : today' = d
    /\ runs' = runs + 1
    /\ pc' = "scraping"
    /\ page' = 1
    /\ books' = <<>>
    /\ fetches' = <<>>
    /\ stop' = "none"
    /\ storeBefore' = store
    /\ cheapest' = NoResult
    /\ trends' = NoResult
    /\ UNCHANGED store

\* One iteration of the while loop of scrape_books, on any response. The
\* catalog has at most MaxPages pages of items.
Fetch ==
    /\ pc = "scraping"
    /\ \E resp \in Responses :
        /\ (resp.kind = "ok" /\ resp.n > 0) => page <= MaxPages
        /\ LET s == ScrapeStep(books, page, resp, today) IN
            /\ books' = s.books
            /\ page' = s.page
            /\ pc' = s.pc
            /\ stop' = s.stop
        /\ fetches' = Append(fetches, [page |-> page, resp |-> resp])
    /\ UNCHANGED <<store, storeBefore, today, runs, cheapest, trends>>

\* save_to_csv(new_data) returns
Save ==
    /\ pc = "scraped"
    /\ store' = SaveToCsv(store, books)
    /\ pc' = "saved"
    /\ UNCHANGED <<storeBefore, page, books, today, runs, fetches, stop, cheapest, trends>>

\* open() raises (permissions, no space for a new file): nothing is written.
SaveOpenFails ==
    /\ pc = "scraped"
    /\ pc' = "save_raised"
    /\ UNCHANGED <<store, storeBefore, page, books, today, runs, fetches, stop,
                   cheapest, trends>>

\* open() succeeds and a later write or flush raises (disk full, I/O error)
\* when k lines of the batch have reached the disk.
SaveWriteFails ==
    /\ pc = "scraped"
    /\ \E k \in 0..Len(LinesToWrite(store, books)) :
            store' = SaveInterrupted(store, books, k)
    /\ pc' = "save_raised"
    /\ UNCHANGED <<storeBefore, page, books, today, runs, fetches, stop, cheapest, trends>>

PlotCheapest ==
    /\ pc = "saved"
    /\ cheapest' = PlotCheapestBooks(store)
    /\ pc' = IF cheapest'.st = "ok" THEN "plotted" ELSE "plot_raised"
    /\ UNCHANGED <<store, storeBefore, page, books, today, runs, fetches, stop, trends>>

PlotTrends ==
    /\ pc = "plotted"
    /\ trends' = PlotPriceTrends(store)
    /\ pc' = IF trends'.st = "ok" THEN "done" ELSE "plot_raised"
    /\ UNCHANGED <<store, storeBefore, page, books, today, runs, fetches, stop, cheapest>>

\* ---------------------------------------------------------- specifications
Init ==
    /\ store = Absent
    /\ storeBefore = Absent
    /\ pc = "idle"
    /\ page = 1
    /\ books = <<>>
    /\ today = 1
    /\ runs = 0
    /\ fetches = <<>>
    /\ stop = "none"
    /\ cheapest = NoResult
    /\ trends = NoResult

Next == StartRun \/ Fetch \/ Save \/ PlotCheapest \/ PlotTrends

\* The script run repeatedly against books.csv, the file system never failing.
Spec == Init /\ [][Next]_vars

NextFault == Next \/ SaveOpenFails \/ SaveWriteFails

\* The same with a file system that can fail during save_to_csv.
SpecFault == Init /\ [][NextFault]_vars

\* The stores the reporting functions can be handed: a header and up to
\* MaxInitRows rows, from this script or from anything else that wrote the file.
StoredTitles == {1, 2}
StoredPrices == {Num(1), Num(2), EmptyCell, TextCell}
StoredDates == {1, 2}
StoredRows ==
    {[kind |-> "row", title |-> t, price |-> c, stock |-> "In stock",
      rating |-> "Three", date |-> d] :
        t \in StoredTitles, c \in StoredPrices, d \in StoredDates}

RowSeqs == UNION {[1..n -> StoredRows] : n \in 0..MaxInitRows}

\* and stores of one row more than the [:10] slice keeps, of two kinds of row
LongRows ==
    {[kind |-> "row", title |-> t, price |-> Num(3 - t), stock |-> "In stock",
      rating |-> "Three", date |-> t] : t \in StoredTitles}

LongRowSeqs == [1..(TopN + 1) -> LongRows]

\* plot_cheapest_books() or plot_price_trends() called on an existing file
InitReport ==
    /\ store \in {[exists |-> TRUE, lines |-> <<Header>> \o rows] :
                    rows \in RowSeqs \cup LongRowSeqs}
    /\ storeBefore = store
    /\ pc \in {"saved", "plotted"}
    /\ page = 1
    /\ books = <<>>
    /\ today = 1
    /\ runs = 0
    /\ fetches = <<>>
    /\ stop = "none"
    /\ cheapest = NoResult
    /\ trends = NoResult

NextReport == PlotCheapest \/ PlotTrends

SpecReport == InitReport /\ [][NextReport]_vars

\* ============================================================== properties
\* Vocabulary of the properties, stated on the raw responses and on the file.
DataRows(file) == SelectSeq(file.lines, LAMBDA l : l.kind = "row")
HeaderCount(file) == Len(SelectSeq(file.lines, LAMBDA l : l.kind = "header"))
IsPrefix(a, b) == Len(a) <= Len(b) /\ SubSeq(b, 1, Len(a)) = a
Last(s) == s[Len(s)]
AfterSave == pc \in {"saved", "plotted", "done", "plot_raised"}

Terminal(r) == r.kind \in {"404", "error"} \/ (r.kind = "ok" /\ r.n = 0)
Malformed(r) == r.kind = "ok" /\ r.bad > 0

\* The record the catalog's item j of page p stands for, captured on date d
ExpectedBook(p, j, d) ==
    [title |-> TitleOf(p, j), price |-> PriceOf(p, j), stock |-> "In stock",
     rating |-> "Three", date |-> d]

\* The records of the item pages among the responses fs, in page order and
\* in-page order
RECURSIVE ExpectedBatch(_, _)
ExpectedBatch(fs, d) ==
    IF fs = <<>> THEN <<>>
    ELSE ExpectedBatch(SubSeq(fs, 1, Len(fs) - 1), d)
         \o [j \in 1..Last(fs).resp.n |-> ExpectedBook(Last(fs).page, j, d)]

ExpectedLine(b) ==
    [kind |-> "row", title |-> b.title, price |-> [k |-> "num", v |-> b.price],
     stock |-> b.stock, rating |-> b.rating, date |-> b.date]

Earlier(fs) == SubSeq(fs, 1, Len(fs) - 1)

\* The run's scrape ended on a transport failure of page p >= 2
FailedMidScrape ==
    /\ Len(fetches) >= 2
    /\ Last(fetches).resp.kind = "error"

C3_AppendOnly ==
    [][(store.exists => store'.exists) /\ IsPrefix(store.lines, store'.lines)]_vars

C3_Witness ==
    /\ runs >= 2
    /\ pc = "done"
    /\ DataRows(storeBefore) # <<>>
    /\ Len(store.lines) > Len(storeBefore.lines)
    /\ IsPrefix(storeBefore.lines, store.lines)

\* The number of items on the pages this run extracted
ExtractedCount == Len(ExpectedBatch(Earlier(fetches), today))

LeftBehind == SubSeq(store.lines, Len(storeBefore.lines) + 1, Len(store.lines))

\* C5 as stated: after save_to_csv failed, every record of the batch has been
\* appended or none has, and no header stands without its batch.
C5_AllOrNothing ==
    pc = "save_raised" =>
        LET rows == SelectSeq(LeftBehind, LAMBDA l : l.kind = "row") IN
        /\ Len(rows) \in {0, Len(books)}
        /\ (books # <<>> /\ Len(rows) = 0) => LeftBehind = <<>>

\* C9: the pages are requested in the order 1, 2, 3, ..., each once; the
\* first response that is a 404, a transport failure or a page without items
\* is the last request of the run, and scrape_books then returns the records
\* of the pages before it, in page order and in-page order, all stamped with
\* the run's date.
C9_PagesInOrderUntilFirstStop ==
    /\ \A i \in 1..Len(fetches) : fetches[i].page = i
    /\ \A i \in 1..Len(fetches) :
          Terminal(fetches[i].resp) =>
            /\ i = Len(fetches)
            /\ pc # "scraping"
            /\ books = ExpectedBatch(Earlier(fetches), today)
            /\ \A j \in 1..Len(books) : books[j].date = today
    /\ pc \in {"scraped", "saved", "plotted", "done"} =>
          fetches # <<>> /\ Terminal(Last(fetches).resp)

\* two pages of three items, then a 404 on page 3: six records
C9_Witness ==
    /\ pc = "scraped"
    /\ Len(fetches) = 3
    /\ fetches[1].resp = [kind |-> "ok", n |-> 3, bad |-> 0, field |-> "none"]
    /\ fetches[2].resp = [kind |-> "ok", n |-> 3, bad |-> 0, field |-> "none"]
    /\ fetches[3].resp.kind = "404"
    /\ Len(books) = 6

\* C10: a page with an item that lacks an expected field is the last page
\* the run requests; the run ends there by the exception, without saving:
\* the store is what it was before the run.
C10_MalformedItemEndsRun ==
    \A i \in 1..Len(fetches) :
        Malformed(fetches[i].resp) =>
            /\ i = Len(fetches)
            /\ pc = "scrape_raised"
            /\ store = storeBefore

\* page 2 has a bad second item: page 1's records and one record of page 2
\* are in the batch that is dropped
C10_Witness ==
    /\ pc = "scrape_raised"
    /\ Len(fetches) = 2
    /\ Last(fetches).resp.bad = 2
    /\ Len(books) = fetches[1].resp.n + 1
    /\ store = storeBefore

\* ------------------------------------------------ the reporting functions
Rows == ReaderRows(store)
ValidIdx == {i \in 1..Len(Rows) : Rows[i].price.k = "num"}
HasBadPrice == \E i \in 1..Len(Rows) : Rows[i].price.k # "num"
MinOf(a, b) == IF a < b THEN a ELSE b

RECURSIVE SumAt(_)
SumAt(S) ==
    IF S = {} THEN 0
    ELSE LET i == CHOOSE x \in S : TRUE IN Rows[i].price.v + SumAt(S \ {i})

\* out is the N cheapest of the rows V, ascending, ties in file order
IsCheapestOf(out, V) ==
    LET picked == {out[j].pos : j \in 1..Len(out)} IN
    /\ Len(out) = MinOf(TopN, Cardinality(V))
    /\ \A j \in 1..Len(out) :
          /\ out[j].pos \in V
          /\ out[j].title = Rows[out[j].pos].title
          /\ out[j].price = Rows[out[j].pos].price.v
    /\ \A j, k \in 1..Len(out) :
          j < k => /\ out[j].pos # out[k].pos
                   /\ out[j].price <= out[k].price
                   /\ out[j].price = out[k].price => out[j].pos < out[k].pos
    /\ \A i \in V \ picked : \A j \in 1..Len(out) :
          /\ out[j].price <= Rows[i].price.v
          /\ out[j].price = Rows[i].price.v => out[j].pos < i

\* out has one entry per date of D, ascending, each the mean of the prices
\* of the rows V of that date
IsAverageByDate(out, D, V) ==
    /\ Len(out) = Cardinality(D)
    /\ {out[j].date : j \in 1..Len(out)} = D
    /\ \A j, k \in 1..Len(out) : j < k => out[j].date < out[k].date
    /\ \A j \in 1..Len(out) :
          LET S == {i \in V : Rows[i].date = out[j].date} IN
          /\ out[j].n = Cardinality(S)
          /\ out[j].n > 0
          /\ out[j].sum = SumAt(S)

\* C6 as stated: with a row whose price is missing or unparsable in the
\* store, both derivations complete, over the rows whose price parses.
C6_BadPriceExcludedNotFatal ==
    HasBadPrice =>
        /\ cheapest.st # "none" =>
              cheapest.st = "ok" /\ IsCheapestOf(cheapest.out, ValidIdx)
        /\ trends.st # "none" =>
              /\ trends.st = "ok"
              /\ IsAverageByDate(trends.out, {Rows[i].date : i \in ValidIdx}, ValidIdx)

\* C7 as stated: for every store content, the cheapest-N derivation yields
\* min(10, number of valid-price rows) rows, ascending by price, none dearer
\* than an omitted row, rows of equal price in their order in the store.
C7_CheapestN ==
    cheapest.st # "none" =>
        cheapest.st = "ok" /\ IsCheapestOf(cheapest.out, ValidIdx)

\* C8 as stated: for every store content, the average-by-date derivation
\* yields one entry per distinct date present in the store, in ascending
\* date order, each the mean of the valid prices of the rows of that date.
C8_AverageByDate ==
    trends.st # "none" =>
        /\ trends.st = "ok"
        /\ IsAverageByDate(trends.out, {Rows[i].date : i \in 1..Len(Rows)}, ValidIdx)

\* What does hold of the two derivations: on a store whose every price
\* parses (every store this program writes), they are as C7 and C8 say.
CheapestOnParsableStore ==
    (~HasBadPrice /\ cheapest.st # "none") =>
        cheapest.st = "ok" /\ IsCheapestOf(cheapest.out, ValidIdx)

AverageOnParsableStore ==
    (~HasBadPrice /\ trends.st # "none") =>
        /\ trends.st = "ok"
        /\ IsAverageByDate(trends.out, {Rows[i].date : i \in 1..Len(Rows)}, ValidIdx)

\* plot_price_trends alone tolerates the empty price: it fails only on a
\* non-empty price that does not parse.
TrendsSkipEmptyPrice ==
    trends.st # "none" =>
        IF \E i \in 1..Len(Rows) : Rows[i].price.k = "text"
        THEN trends.st = "ValueError"
        ELSE /\ trends.st = "ok"
             /\ IsAverageByDate(trends.out, {Rows[i].date : i \in ValidIdx}, ValidIdx)

====
